---- MODULE Spec2Model ----
(***************************************************************************)
(* RPXP cog (rpxp.py): XP awards for role-play messages.                   *)
(*                                                                         *)
(* The state is the Config store (one guild's settings, one accrual record *)
(* per member), the wall clock, and the position and locals of every       *)
(* coroutine the bot runs: two message-listener tasks and one rpxp_add     *)
(* command.  Each awaited access of the store is one atomic step, and      *)
(* coroutines interleave between steps.  A dashboard submission is one     *)
(* step: its eight awaited sets each store one validated field, so a       *)
(* listener reading between two of them sees validated fields only.        *)
(***************************************************************************)
EXTENDS Integers, FiniteSets, Sequences, TLC

(* ------------------------------ bounds -------------------------------- *)
\* events of the environment in one run: messages delivered, rpxp add
\* commands and dashboard submissions
MaxEvents == 4
\* seconds that pass in one run
MaxSeconds == 2

(* --------------------------- the environment --------------------------- *)
Handlers == {1, 2}                  \* listener tasks that may be in flight
Members  == {"u1", "u2", "bot"}
Bots     == {"bot"}
IsBot(u) == u \in Bots              \* discord.User.bot

NoChannel == 0                      \* None (and every falsy id)
TextChan  == 1                      \* a text channel of the guild
Thread    == 2                      \* a thread whose parent is TextChan
ChannelIds == {TextChan, Thread}
IsThread(c) == c = Thread
Parent(c)   == IF c = Thread THEN TextChan ELSE NoChannel

\* time.time() when the run begins: far later than any stored timestamp
StartTime == 20
MaxTime == StartTime + MaxSeconds
\* seconds that may pass between two readings of the clock
Elapsed == 0..MaxSeconds

\* Messages the gateway may deliver: author, guild (FALSE for a DM),
\* channel id (message.channel.id) and len(message.content.split()).
Msg(a, gd, c, w) == [author |-> a, guild |-> gd, channel |-> c, words |-> w]
Messages ==
    { Msg("u1", TRUE, TextChan, 3), Msg("u1", TRUE, TextChan, 1),
      Msg("u1", TRUE, Thread, 3), Msg("bot", TRUE, TextChan, 3),
      Msg("u1", FALSE, TextChan, 3) }
NoMsg == Msg("bot", FALSE, NoChannel, 0)

(* ------------------------- registered defaults ------------------------- *)
default_guild ==
    [ enabled |-> TRUE, rp_channels |-> {}, messages_needed |-> 5,
      xp_award |-> 10, cooldown_seconds |-> 15, announce_channel |-> NoChannel,
      words_per_unit |-> 25, min_words |-> 8 ]

default_member == [ xp |-> 0, msg_count |-> 0, last_message_time |-> 0 ]

(* ------------------------- dashboard form inputs ----------------------- *)
Form(en, need, award, cd, wpu, minw, rp, ann) ==
    [ enabled |-> en, messages_needed |-> need, xp_award |-> award,
      cooldown_seconds |-> cd, words_per_unit |-> wpu, min_words |-> minw,
      rp_channels |-> rp, announce_channel |-> ann ]

\* Submitted forms: a working configuration, one with a lower threshold,
\* no cooldown and an announcement channel, a disabled guild, and one
\* that the validators refuse.
FormInputs ==
    { Form(TRUE, 3, 3, 2, 2, 2, {TextChan}, NoChannel),
      Form(TRUE, 1, 3, 0, 4, 2, {TextChan}, TextChan),
      Form(FALSE, 3, 3, 2, 2, 2, {TextChan}, NoChannel),
      Form(TRUE, 3, 3, -1, 0, 2, {TextChan}, NoChannel) }

\* rpxp add <user> <xp>: xp is any int
AddInputs == { <<"u1", 2>>, <<"u2", -1>> }

VARIABLES
    guild,      \* config.guild(guild): the stored settings
    member,     \* config.member(u): the stored accrual record of each member
    clock,      \* the value time.time() returned last
    pc,         \* per listener task: the line its coroutine is suspended at
                \* ("idle": no call in flight)
    msg,        \* per listener task: the message being processed
    g,          \* per listener task: local g (line 255)
    m,          \* per listener task: local m (line 262)
    now,        \* per listener task: local now (line 263)
    add,        \* the rpxp_add coroutine: position, arguments and local cur
    arrived,    \* per member: when the member's last message that passed the
                \* enabled, channel and minimum-word gates arrived
    dropped,    \* the line at which the last listener call that was cut
                \* short ended: the return of a gate, or 290 when
                \* chan.send raised out of the listener (0: none since a
                \* message last passed the channel gate)
    nevents     \* events of the environment so far

vars == <<guild, member, clock, pc, msg, g, m, now, add, arrived, dropped, nevents>>

locals == <<msg, g, m, now>>
admin  == <<add>>

Event ==
    /\ nevents < MaxEvents
    /\ nevents' = nevents + 1

(* ------------------------- on_message_without_command ------------------ *)
Ceil(a, b) == IF a % b = 0 THEN a \div b ELSE (a \div b) + 1
Max(a, b)  == IF a >= b THEN a ELSE b

\* faulty variant: the quotient is rounded down
UnitsFloor(words, wpu) == Max(1, words \div wpu)

\* line 274: max(1, math.ceil(words / g["words_per_unit"]))
Units(words, wpu) == Max(1, Ceil(words, wpu))

\* faulty variant: the units of the message are not added
NewCountStuck(h) == m[h].msg_count

\* line 275: m["msg_count"] + units
NewCount(h) == m[h].msg_count + Units(msg[h].words, g[h].words_per_unit)

\* faulty variant: the threshold itself does not award
BelowThresholdInclusive(count, needed) == count <= needed

\* line 278: the test that ends the call without an award
BelowThreshold(count, needed) == count < needed

\* faulty variant: a message one word short of the floor is let through
TooShortLenient(words, min_words) == words < min_words - 1

\* line 266: the anti-spam floor
TooShort(words, min_words) == words < min_words

\* faulty variant: the cooldown ends a second early
InCooldownShort(t, last, cooldown) == t - last < cooldown - 1

\* line 269: the cooldown gate
InCooldown(t, last, cooldown) == t - last < cooldown

\* faulty variant: every channel counts as an RP channel
NotRpChannelNever(message, rp_channels) == FALSE

\* line 259: the channel gate
NotRpChannel(message, rp_channels) == message.channel \notin rp_channels

Idle(h) == pc[h] = "idle"

\* The coroutine's frame: its locals exist only while the call is in flight.
Frame(h, message, gv, mv, t) ==
    /\ msg' = [msg EXCEPT ![h] = message]
    /\ g'   = [g EXCEPT ![h] = gv]
    /\ m'   = [m EXCEPT ![h] = mv]
    /\ now' = [now EXCEPT ![h] = t]

NoFrame(h) == Frame(h, NoMsg, default_guild, default_member, 0)

\* the coroutine returns
Leave(h) ==
    /\ pc' = [pc EXCEPT ![h] = "idle"]
    /\ NoFrame(h)

\* an exception leaves the coroutine: the task is over as after a return
Raise(h) == Leave(h)

\* suspended at the await of `line`
Goto(h, line) == pc' = [pc EXCEPT ![h] = line]

\* The event loop runs a listener call as a task of its own; the tasks are
\* interchangeable, so a call takes the first free one.
FreeTask(h) == Idle(h) /\ \A o \in Handlers : (o < h) => ~Idle(o)

\* lines 252-260: the listener is called with a message; DMs and bots
\* return at once, otherwise the settings are read and the enabled and
\* channel gates are applied.
OnMessage(h, message) ==
    /\ FreeTask(h)
    /\ Event
    /\ IF ~message.guild \/ IsBot(message.author)
         THEN Leave(h) /\ dropped' = 253
         ELSE IF ~guild.enabled
                THEN Leave(h) /\ dropped' = 257
                ELSE IF NotRpChannel(message, guild.rp_channels)
                       THEN Leave(h) /\ dropped' = 260
                       ELSE /\ Goto(h, "l262")
                            /\ Frame(h, message, guild, default_member, 0)
                            /\ dropped' = 0
    /\ UNCHANGED <<guild, member, clock, admin, arrived>>

\* line 255 raising: the settings cannot be read for a message that is
\* neither a DM nor a bot's
OnMessageFail(h) ==
    /\ FreeTask(h)
    /\ Event
    /\ \E message \in Messages : message.guild /\ ~IsBot(message.author)
    /\ Raise(h)
    /\ UNCHANGED <<guild, member, clock, admin, arrived, dropped>>

\* lines 262-270: read the author's record and the clock (time.time()
\* returns the time last read plus the seconds elapsed since), apply the
\* minimum-word and cooldown gates
ReadMember(h, elapsed) ==
    LET a == msg[h].author
        t == clock + elapsed
    IN
    /\ pc[h] = "l262"
    /\ t <= MaxTime
    /\ clock' = t
    /\ IF TooShort(msg[h].words, g[h].min_words)
         THEN Leave(h) /\ arrived' = arrived /\ dropped' = 267
         ELSE /\ arrived' = [arrived EXCEPT ![a] = t]
              /\ IF InCooldown(t, member[a].last_message_time,
                               g[h].cooldown_seconds)
                   THEN Leave(h) /\ dropped' = 270
                   ELSE /\ Goto(h, "l272")
                        /\ Frame(h, msg[h], g[h], member[a], t)
                        /\ dropped' = dropped
    /\ UNCHANGED <<guild, member, admin, nevents>>

\* line 272
SetLastMessageTime(h) ==
    /\ pc[h] = "l272"
    /\ member' = [member EXCEPT ![msg[h].author].last_message_time = now[h]]
    /\ Goto(h, "l276")
    /\ UNCHANGED <<guild, clock, locals, admin, arrived, dropped, nevents>>

\* lines 274-279
SetMsgCount(h) ==
    /\ pc[h] = "l276"
    /\ member' = [member EXCEPT ![msg[h].author].msg_count = NewCount(h)]
    /\ IF BelowThreshold(NewCount(h), g[h].messages_needed)
         THEN Leave(h)
         ELSE Goto(h, "l282") /\ UNCHANGED locals
    /\ UNCHANGED <<guild, clock, admin, arrived, dropped, nevents>>

\* faulty variant: the award is stored in every member's record
SetXpEveryone(h) ==
    /\ pc[h] = "l282"
    /\ member' = [u \in Members |->
                    [member[u] EXCEPT !.xp = m[h].xp + g[h].xp_award]]
    /\ Goto(h, "l283")
    /\ UNCHANGED <<guild, clock, locals, admin, arrived, dropped, nevents>>

\* lines 281-282
SetXp(h) ==
    /\ pc[h] = "l282"
    /\ member' = [member EXCEPT ![msg[h].author].xp = m[h].xp + g[h].xp_award]
    /\ Goto(h, "l283")
    /\ UNCHANGED <<guild, clock, locals, admin, arrived, dropped, nevents>>

\* lines 283-288: reset the counter; then the announcement channel is
\* looked up (get_channel returns None for a channel that is gone)
ResetMsgCount(h) ==
    /\ pc[h] = "l283"
    /\ member' = [member EXCEPT ![msg[h].author].msg_count = 0]
    /\ \E resolved \in BOOLEAN :
         IF g[h].announce_channel # NoChannel /\ resolved
           THEN Goto(h, "l290") /\ UNCHANGED locals
           ELSE Leave(h)
    /\ UNCHANGED <<guild, clock, admin, arrived, dropped, nevents>>

\* lines 289-294: chan.send succeeds, raises discord.Forbidden (caught), or
\* raises another HTTPException (not caught)
Announce(h) ==
    /\ pc[h] = "l290"
    /\ \E outcome \in {"sent", "Forbidden", "HTTPException"} :
         IF outcome = "HTTPException"
           THEN Raise(h) /\ dropped' = 290
           ELSE Leave(h) /\ dropped' = dropped
    /\ UNCHANGED <<guild, member, clock, admin, arrived, nevents>>

\* an awaited access of the store raises: the exception leaves the listener
StoreFail(h) ==
    /\ pc[h] \in {"l262", "l272", "l276", "l282", "l283"}
    /\ Raise(h)
    /\ UNCHANGED <<guild, member, clock, admin, arrived, dropped, nevents>>

(* ------------------------------- rpxp add ------------------------------ *)
NoAdd == [pc |-> "idle", user |-> "u1", xp |-> 0, cur |-> 0]

\* line 319: cur = await self.config.member(user).xp()
AddRead(user, xp) ==
    /\ add.pc = "idle"
    /\ Event
    /\ add' = [pc |-> "l320", user |-> user, xp |-> xp, cur |-> member[user].xp]
    /\ UNCHANGED <<guild, member, clock, pc, locals, arrived, dropped>>

\* line 320: await self.config.member(user).xp.set(cur + xp)
AddWrite ==
    /\ add.pc = "l320"
    /\ member' = [member EXCEPT ![add.user].xp = add.cur + add.xp]
    /\ add' = NoAdd
    /\ UNCHANGED <<guild, clock, pc, locals, arrived, dropped, nevents>>

(* --------------------------- dashboard_config -------------------------- *)
\* faulty variant: the form has no validators
ValidateNothing(form) == TRUE

\* lines 109-137: the NumberRange validators of RPXPForm
Validate(form) ==
    /\ form.messages_needed >= 1
    /\ form.xp_award >= 0
    /\ form.cooldown_seconds >= 0
    /\ form.words_per_unit >= 1
    /\ form.min_words >= 1

\* lines 86-190: a POST by an owner or moderator.  A form that fails
\* validation is rendered again and nothing is saved; a valid one is saved
\* field by field (lines 175-182).
DashboardSubmit(form) ==
    /\ Event
    /\ guild' = IF Validate(form) THEN form ELSE guild
    /\ UNCHANGED <<member, clock, pc, locals, add, arrived, dropped>>

Init ==
    /\ guild  = default_guild
    /\ member = [u \in Members |-> default_member]
    /\ clock  = StartTime
    /\ pc     = [h \in Handlers |-> "idle"]
    /\ msg    = [h \in Handlers |-> NoMsg]
    /\ g      = [h \in Handlers |-> default_guild]
    /\ m      = [h \in Handlers |-> default_member]
    /\ now    = [h \in Handlers |-> 0]
    /\ add    = NoAdd
    /\ arrived  = [u \in Members |-> 0]
    /\ dropped  = 0
    /\ nevents  = 0

Next ==
    \/ \E h \in Handlers, message \in Messages : OnMessage(h, message)
    \/ \E h \in Handlers : OnMessageFail(h)
    \/ \E h \in Handlers, elapsed \in Elapsed : ReadMember(h, elapsed)
    \/ \E h \in Handlers : SetLastMessageTime(h)
    \/ \E h \in Handlers : SetMsgCount(h)
    \/ \E h \in Handlers : SetXp(h)
    \/ \E h \in Handlers : ResetMsgCount(h)
    \/ \E h \in Handlers : Announce(h)
    \/ \E h \in Handlers : StoreFail(h)
    \/ \E in \in AddInputs : AddRead(in[1], in[2])
    \/ AddWrite
    \/ \E form \in FormInputs : DashboardSubmit(form)

Spec == Init /\ [][Next]_vars

(* ======================= properties of the listener ==================== *)
InFlight(h) == ~Idle(h)
Author(h)   == msg[h].author

\* the call of task h takes a step
Steps(h) == InFlight(h) /\ pc'[h] # pc[h]

\* the call of task h returns (no exception): at once from OnMessage, or
\* from a later line
ReturnsAtOnce(h, message) == OnMessage(h, message) /\ pc'[h] = "idle"
ReturnsLater(h) == InFlight(h) /\ pc'[h] = "idle" /\ ~StoreFail(h)

(* ------------------------------------------------------------------------ *)
(* C1: for an accepted message, with c the msg_count the call read and      *)
(* units the message's contribution, the call goes on to the award exactly  *)
(* when c + units >= messages_needed; the award sets xp to the xp it read   *)
(* plus xp_award and msg_count to 0; without an award the call stores       *)
(* c + units, leaves xp alone and returns.                                  *)
(* ------------------------------------------------------------------------ *)
C1_Step(h) ==
    LET a     == Author(h)
        c     == m[h].msg_count
        units == Units(msg[h].words, g[h].words_per_unit)
        fires == c + units >= g[h].messages_needed
    IN
    /\ (pc[h] = "l276" /\ Steps(h) /\ ~StoreFail(h)) =>
          /\ member'[a].msg_count = c + units
          /\ member'[a].xp = member[a].xp
          /\ fires <=> pc'[h] = "l282"
          /\ ~fires <=> pc'[h] = "idle"
    /\ (pc[h] = "l282" /\ Steps(h) /\ ~StoreFail(h)) =>
          /\ member'[a].xp = m[h].xp + g[h].xp_award
          /\ pc'[h] = "l283"
    /\ (pc[h] = "l283" /\ Steps(h) /\ ~StoreFail(h)) =>
          /\ member'[a].msg_count = 0
          /\ member'[a].xp = member[a].xp

C1_AwardRule == [][\A h \in Handlers : C1_Step(h)]_vars

\* an award with excess units has been written: the counter read plus the
\* units exceeds the threshold, xp is up by xp_award, the reset comes next
C1_Witness ==
    \E h \in Handlers :
        /\ pc[h] = "l283"
        /\ NewCount(h) > g[h].messages_needed
        /\ member[Author(h)].msg_count = NewCount(h)
        /\ member[Author(h)].xp = m[h].xp + g[h].xp_award
        /\ g[h].xp_award > 0

(* ------------------------------------------------------------------------ *)
(* C2 as stated: whenever a call of the listener returns, the author's      *)
(* stored msg_count is strictly below the guild's messages_needed.  Stated  *)
(* here for a call that returns while no other call is in flight.           *)
(* ------------------------------------------------------------------------ *)
Alone(h) == \A o \in Handlers \ {h} : pc[o] = "idle"

BelowNeeded(a) == member'[a].msg_count < guild'.messages_needed

C2_Original ==
    [][\A h \in Handlers :
         Alone(h) =>
            /\ ReturnsLater(h) => BelowNeeded(Author(h))
            /\ \A message \in Messages :
                 ReturnsAtOnce(h, message) => BelowNeeded(message.author)]_vars

(* ------------------------------------------------------------------------ *)
(* C2 (amended): a call that accepted its message and returns leaves, by    *)
(* its own last write, a msg_count strictly below the messages_needed it    *)
(* read: the new count when no award fires, 0 after an award.               *)
(* ------------------------------------------------------------------------ *)
C2_Step(h) ==
    LET a == Author(h) IN
    /\ (pc[h] = "l276" /\ ReturnsLater(h)) =>
          member'[a].msg_count < g[h].messages_needed
    /\ (pc[h] = "l283" /\ Steps(h) /\ ~StoreFail(h)) =>
          member'[a].msg_count < g[h].messages_needed

C2_LastWriteBelowThreshold == [][\A h \in Handlers : C2_Step(h)]_vars

\* every call has returned, one of them stored a count below the threshold
\* it read, and a later dashboard save lowered the threshold below that
\* count
C2_Witness ==
    /\ \A h \in Handlers : pc[h] = "idle"
    /\ member["u1"].msg_count > 0
    /\ member["u1"].msg_count > guild.messages_needed
    /\ member["u1"].xp = 0

(* ------------------------------------------------------------------------ *)
(* C3 as stated: when a message that passed the enabled, channel and        *)
(* minimum-word gates arrives at t1, and the same user's previous message   *)
(* that passed these gates arrived at t0 with t1 - t0 < cooldown_seconds,   *)
(* the message is a full no-op.  Stated here for a user who has had a       *)
(* message accepted and counted, and for a call that runs while no other    *)
(* call is in flight.                                                       *)
(* ------------------------------------------------------------------------ *)
PassesWordGate(h) == pc[h] = "l262" /\ msg[h].words >= g[h].min_words

NoOp(h) == pc'[h] = "idle" /\ member' = member

C3_Original ==
    [][\A h \in Handlers :
         ( /\ Alone(h)
           /\ PassesWordGate(h) /\ Steps(h)
           /\ member[Author(h)].last_message_time > 0
           /\ member[Author(h)].msg_count > 0
           /\ arrived[Author(h)] > 0
           /\ clock' - arrived[Author(h)] < g[h].cooldown_seconds )
         => NoOp(h)]_vars

(* ------------------------------------------------------------------------ *)
(* C3 (amended): a message that passed the enabled, channel and             *)
(* minimum-word gates and arrives at t1 while the call reads a stored       *)
(* last_message_time L with t1 - L < cooldown_seconds is a full no-op: the  *)
(* call returns, and msg_count, xp and last_message_time of every member    *)
(* are what they were.                                                      *)
(* ------------------------------------------------------------------------ *)
C3_CooldownNoOp ==
    [][\A h \in Handlers :
         ( /\ PassesWordGate(h) /\ Steps(h)
           /\ clock' - member[Author(h)].last_message_time
                 < g[h].cooldown_seconds )
         => NoOp(h)]_vars

\* a message of u1 was accepted, a later one arrived within the cooldown,
\* and every call has returned
C3_Witness ==
    /\ \A h \in Handlers : pc[h] = "idle"
    /\ member["u1"].last_message_time > 0
    /\ arrived["u1"] > member["u1"].last_message_time
    /\ arrived["u1"] - member["u1"].last_message_time < guild.cooldown_seconds

(* ------------------------------------------------------------------------ *)
(* C4: two overlapping calls for the same user never both pass the cooldown *)
(* gate having read the same msg_count and last_message_time: of two calls  *)
(* for one user that are both past the gate of lines 269-270, one has read  *)
(* the record the other one wrote.                                          *)
(* ------------------------------------------------------------------------ *)
PastCooldownGate(h) == pc[h] \in {"l272", "l276", "l282", "l283", "l290"}

C4_NoSharedRead ==
    \A h, o \in Handlers :
        ( /\ h # o
          /\ PastCooldownGate(h) /\ PastCooldownGate(o)
          /\ Author(h) = Author(o) )
        => \/ m[h].msg_count # m[o].msg_count
           \/ m[h].last_message_time # m[o].last_message_time

(* ------------------------------------------------------------------------ *)
(* C5: when an access to the store fails during a call, the author's stored *)
(* xp, msg_count and last_message_time are what the call read before it     *)
(* wrote anything: no write of the failed call is left behind.  Stated here *)
(* for a call that runs while no other call or command is in flight.        *)
(* ------------------------------------------------------------------------ *)
FailsAfterRead(h) == pc[h] \in {"l272", "l276", "l282", "l283"} /\ StoreFail(h)

C5_NoPartialMutation ==
    [][\A h \in Handlers :
         (Alone(h) /\ add.pc = "idle" /\ FailsAfterRead(h))
         => member'[Author(h)] = m[h]]_vars

(* ------------------------------------------------------------------------ *)
(* C6: a message in a thread is eligible for accrual (passes the channel    *)
(* gate of an enabled guild) exactly when the thread's parent channel is in *)
(* rp_channels; a message posted directly in a channel exactly when that    *)
(* channel is in rp_channels.                                               *)
(* ------------------------------------------------------------------------ *)
EligibleChannel(c, rp_channels) ==
    IF IsThread(c) THEN Parent(c) \in rp_channels ELSE c \in rp_channels

C6_ThreadEligibility ==
    [][\A h \in Handlers, message \in Messages :
         ( /\ OnMessage(h, message)
           /\ message.guild /\ message.author \notin Bots
           /\ guild.enabled )
         => ( pc'[h] = "l262"
                <=> EligibleChannel(message.channel, guild.rp_channels) )]_vars

(* ------------------------------------------------------------------------ *)
(* C7: a message with fewer words than min_words changes no member's xp,    *)
(* msg_count or last_message_time, whatever the stored record and the       *)
(* settings: the call that reaches the minimum-word gate with such a        *)
(* message ends there, and no step of it up to there writes a member field. *)
(* ------------------------------------------------------------------------ *)
C7_ShortMessageNoOp ==
    [][\A h \in Handlers :
         /\ (Idle(h) /\ pc'[h] = "l262") => member' = member
         /\ (pc[h] = "l262" /\ msg[h].words < g[h].min_words /\ Steps(h))
              => /\ member' = member
                 /\ pc'[h] = "idle"]_vars

\* a short message was dropped at line 267 while the author has units on
\* the counter and a cooldown clock running
C7_Witness ==
    /\ dropped = 267
    /\ \A h \in Handlers : pc[h] = "idle"
    /\ member["u1"].msg_count > 0
    /\ member["u1"].last_message_time > 0

(* ------------------------------------------------------------------------ *)
(* C8: when the guild is disabled, or the message's channel is not in       *)
(* rp_channels, or the author is a bot, the call is a no-op whatever the    *)
(* message says: it returns at once, no member field is written, no award   *)
(* fires and the announcement is never reached.                             *)
(* ------------------------------------------------------------------------ *)
C8_GatedNoOp ==
    [][\A h \in Handlers, message \in Messages :
         ( /\ OnMessage(h, message)
           /\ \/ ~guild.enabled
              \/ message.channel \notin guild.rp_channels
              \/ message.author \in Bots )
         => /\ member' = member
            /\ pc'[h] = "idle"
            /\ dropped' \in {253, 257, 260}]_vars

\* a message was dropped at line 257 by a disabled guild while its RP
\* channel is configured and a member has units on the counter
C8_Witness ==
    /\ dropped = 257
    /\ ~guild.enabled
    /\ guild.rp_channels # {}
    /\ \A h \in Handlers : pc[h] = "idle"
    /\ member["u1"].msg_count > 0

(* ------------------------------------------------------------------------ *)
(* C9: in every step a member's stored xp changes only by an award, which   *)
(* adds the xp_award to the stored xp, or by rpxp_add, which adds the       *)
(* granted amount to the stored xp; so no message lowers the xp or discards *)
(* a grant that rpxp_add has written.                                       *)
(* ------------------------------------------------------------------------ *)
C9_XpOnlyByAwardOrGrant ==
    [][\A u \in Members :
         member'[u].xp # member[u].xp
         => \/ \E h \in Handlers :
                 /\ pc[h] = "l282" /\ Author(h) = u
                 /\ member'[u].xp = member[u].xp + g[h].xp_award
            \/ /\ add.pc = "l320" /\ add.user = u
               /\ member'[u].xp = member[u].xp + add.xp]_vars

(* ------------------------------------------------------------------------ *)
(* C10: an accepted message of w words adds max(1, ceil(w/words_per_unit))  *)
(* units to the counter the call read, that is the least n >= 1 with        *)
(* n * words_per_unit >= w: at least one unit, also when words_per_unit     *)
(* exceeds w; with words_per_unit 25, 30 words give 2 units and 10 words 1. *)
(* ------------------------------------------------------------------------ *)
LeastUnits(w, wpu) ==
    CHOOSE n \in 1..(w + 1) :
        /\ n * wpu >= w
        /\ (n > 1) => ((n - 1) * wpu < w)

C10_UnitsAdded ==
    [][/\ \A h \in Handlers :
            (pc[h] = "l276" /\ Steps(h) /\ ~StoreFail(h))
            => /\ msg[h].words >= g[h].min_words
               /\ g[h].words_per_unit >= 1
               /\ member'[Author(h)].msg_count
                    = m[h].msg_count
                        + LeastUnits(msg[h].words, g[h].words_per_unit)
       /\ Units(30, 25) = 2
       /\ Units(10, 25) = 1]_vars

\* a message with fewer words than words_per_unit was accepted and put one
\* unit on the counter
C10_Witness ==
    \E h \in Handlers :
        /\ pc[h] = "l282"
        /\ g[h].words_per_unit > msg[h].words
        /\ member[Author(h)].msg_count = m[h].msg_count + 1

(* ------------------------------------------------------------------------ *)
(* C11: the announcement is attempted only after the award's xp and counter *)
(* reset were written; whatever happens to the delivery, the call ends      *)
(* there without an error leaving the listener and without touching any     *)
(* member's record.                                                         *)
(* ------------------------------------------------------------------------ *)
C11_AnnounceFailureIgnored ==
    [][\A h \in Handlers :
         /\ (pc'[h] = "l290" /\ pc[h] # "l290")
              => /\ pc[h] = "l283"
                 /\ member'[Author(h)].msg_count = 0
         /\ (pc[h] = "l290" /\ Steps(h))
              => /\ pc'[h] = "idle"
                 /\ member' = member
                 /\ dropped' = dropped]_vars

(* ------------------------------------------------------------------------ *)
(* C12: every member's stored xp is an integer >= 0 in every reachable      *)
(* state.                                                                   *)
(* ------------------------------------------------------------------------ *)
C12_XpNonNegative == \A u \in Members : member[u].xp \in Nat

(* ------------------------------------------------------------------------ *)
(* C13: no step of a listener call for a message of user U changes the      *)
(* guild's settings or the record of any member other than U.               *)
(* ------------------------------------------------------------------------ *)
OthersUnchanged(a) ==
    /\ guild' = guild
    /\ \A u \in Members \ {a} : member'[u] = member[u]

WithinConstraints(s) ==
    /\ s.messages_needed >= 1
    /\ s.words_per_unit >= 1
    /\ s.xp_award >= 0
    /\ s.cooldown_seconds >= 0
    /\ s.min_words >= 0

C14_SettingsValid ==
    /\ WithinConstraints(guild)
    /\ \A h \in Handlers : WithinConstraints(g[h])

\* a listener call has read settings saved through the form, with
\* messages_needed and cooldown_seconds at the least values the form
\* accepts
C14_Witness ==
    \E h \in Handlers :
        /\ pc[h] = "l262"
        /\ g[h] = guild
        /\ g[h] # default_guild
        /\ g[h].messages_needed = 1
        /\ g[h].cooldown_seconds = 0

(* ------------------------------------------------------------------------ *)
(* C15: a member's last_message_time changes only by the write of a call    *)
(* whose message passed every gate, to the time that call read for its      *)
(* message; it never decreases, and it moves forward by at least the        *)
(* cooldown_seconds of that call, so that two consecutive accepted messages *)
(* of one user are at least cooldown_seconds apart.                         *)
(* ------------------------------------------------------------------------ *)
C15_LastMessageTime ==
    [][\A u \in Members :
         member'[u].last_message_time # member[u].last_message_time
         => \E h \in Handlers :
              /\ pc[h] = "l272" /\ Author(h) = u
              /\ member'[u].last_message_time = now[h]
              /\ member'[u].last_message_time >= member[u].last_message_time
              /\ member'[u].last_message_time - member[u].last_message_time
                   >= g[h].cooldown_seconds]_vars

(* ===================== a user who keeps posting ========================= *)
(* The settings are saved once and then stay fixed; the guild is enabled;   *)
(* a non-bot user posts messages of at least min_words words in an RP       *)
(* channel, each as soon as cooldown_seconds have passed since the accepted *)
(* one before it, and each after the call for the one before it is over; no *)
(* store access fails.  rpxp add may run beside the listener.               *)
Qualifying(message) ==
    /\ message.guild /\ ~IsBot(message.author)
    /\ guild.enabled
    /\ message.channel \in guild.rp_channels
    /\ message.words >= guild.min_words

\* the saved settings let some message of the user through the gates
Configured == \E message \in Messages : Qualifying(message)

\* the settings are saved until they let the user post, and stay fixed from
\* then on; xp is granted by hand only early (the event budget keeps room
\* for the messages that follow)
LiveConfigure ==
    /\ ~Configured
    /\ nevents + 2 < MaxEvents
    /\ \E form \in FormInputs : DashboardSubmit(form)

LiveAddRead ==
    /\ nevents + 2 < MaxEvents
    /\ \E in \in AddInputs : AddRead(in[1], in[2])

LiveOnMessage(h) ==
    /\ \A o \in Handlers : pc[o] = "idle"
    /\ \E message \in Messages : Qualifying(message) /\ OnMessage(h, message)

LiveReadMember(h) ==
    \E elapsed \in Elapsed :
        /\ \A e \in 0..(elapsed - 1) :
             InCooldown(clock + e, member[msg[h].author].last_message_time,
                        g[h].cooldown_seconds)
        /\ ReadMember(h, elapsed)
        /\ pc'[h] = "l272"

LiveNext ==
    \/ LiveConfigure
    \/ LiveAddRead
    \/ AddWrite
    \/ \E h \in Handlers : LiveOnMessage(h)
    \/ \E h \in Handlers : LiveReadMember(h)
    \/ \E h \in Handlers : SetLastMessageTime(h)
    \/ \E h \in Handlers : SetMsgCount(h)
    \/ \E h \in Handlers : SetXp(h)
    \/ \E h \in Handlers : ResetMsgCount(h)
    \/ \E h \in Handlers : Announce(h)

LiveSpec == Init /\ [][LiveNext]_vars /\ WF_vars(LiveNext)

\* the xp of an award has been written for the user u
Awarded(u) == \E h \in Handlers : pc[h] = "l283" /\ Author(h) = u

\* C16: under LiveSpec (fixed valid settings, enabled guild, qualifying
\* messages spaced by the cooldown, one call at a time, every call run to
\* its end) a user who has not posted yet eventually receives an award; and
\* at most messages_needed accepted messages separate two awards: the stored
\* counter is below messages_needed when a message is counted, a message
\* that brings no award raises it by at least one unit and leaves it below
\* messages_needed, and an award puts it back to 0.
C16_EventuallyAwarded ==
    /\ \A u \in Members \ Bots :
         (Configured /\ arrived[u] = 0 /\ (\E message \in Messages :
              Qualifying(message) /\ message.author = u))
           ~> Awarded(u)
    /\ [][\A h \in Handlers :
            /\ (pc[h] = "l276" /\ Steps(h))
                 => /\ member[Author(h)].msg_count < g[h].messages_needed
                    /\ \/ pc'[h] = "l282"
                       \/ /\ pc'[h] = "idle"
                          /\ member'[Author(h)].msg_count
                               >= member[Author(h)].msg_count + 1
                          /\ member'[Author(h)].msg_count
                               < g[h].messages_needed
            /\ (pc[h] = "l283" /\ Steps(h))
                 => member'[Author(h)].msg_count = 0]_vars

\* the user is awarded on a message that follows an accepted one
C16_Witness ==
    \E h \in Handlers :
        /\ pc[h] = "l283" /\ Author(h) = "u1"
        /\ m[h].msg_count > 0
        /\ g[h].messages_needed > 1
        /\ guild = g[h]
====
